---- MODULE Spec2Model ----
(***************************************************************************)
(* RemoteCLIPAnalyzer (backend/src/analysis/remoteclip_analyzer.py):       *)
(* lazy model initialisation, the get_analyzer singleton, land-use         *)
(* classification, pairwise change detection and the temporal sequence     *)
(* analysis built on them.                                                 *)
(*                                                                         *)
(* Floating point is modelled in fixed point: a float is a record          *)
(* [nan, v] whose v counts units of 1/ONE; NaN is produced by 0/0 and      *)
(* propagates through every arithmetic operation, as IEEE-754 does.        *)
(* The encoder (open_clip model) is an external collaborator: its raw      *)
(* outputs are taken from a table of integer points, and the code's own    *)
(* normalisation, dot products, softmax and topk are computed on them.     *)
(***************************************************************************)
EXTENDS Integers, Sequences, FiniteSets, TLC

VARIABLES
    analyzer_instance,  \* the module global _analyzer_instance: 0 (None) or a
                        \* position in analyzers
    analyzers,          \* every RemoteCLIPAnalyzer constructed so far
    topk_ties,          \* how this build's topk orders equal values
    last,               \* the sequential caller's latest call and its outcome
    pc,                 \* each thread's position in classify_land_use
    local               \* each thread's calls, the times it read
                        \* _initialized as False at line 82, the model object
                        \* it created and the one its last body ran on

vars == <<analyzer_instance, analyzers, topk_ties, last, pc, local>>

-----------------------------------------------------------------------------
(* Bounds of the model *)

NumPaths == 2
MaxImages == 3
MaxTopK == 22
MaxInstances == 2
NumThreads == 2
MaxThreadCalls == 2

-----------------------------------------------------------------------------
(* Fixed-point floats *)

ONE == 65
PROB_ONE == 1000
EXP_BITS == 10

F(n) == [nan |-> FALSE, v |-> n]
NaN == [nan |-> TRUE, v |-> 0]

\* round-to-nearest integer division by a positive divisor
RDiv(a, b) == (2 * a + b) \div (2 * b)

FAdd(a, b) == IF a.nan \/ b.nan THEN NaN ELSE F(a.v + b.v)
FSub(a, b) == IF a.nan \/ b.nan THEN NaN ELSE F(a.v - b.v)
FMul(a, b) == IF a.nan \/ b.nan THEN NaN ELSE F(RDiv(a.v * b.v, ONE))
\* a / b for b >= 0 (the code only divides by norms); the only zero norm is
\* that of the all-zero vector, whose components are zero too: 0/0 = NaN
FDiv(a, b) == IF a.nan \/ b.nan \/ b.v = 0 THEN NaN ELSE F(RDiv(a.v * ONE, b.v))
\* x * c for a Python number c given as the fraction num/den (100, 0.5)
FScale(a, num, den) == IF a.nan THEN NaN ELSE F(RDiv(a.v * num, den))

\* the integer square root, by bisection, rounded to nearest
RECURSIVE SqrtBetween(_, _, _)
SqrtBetween(n, lo, hi) ==
    IF hi - lo <= 1 THEN lo
    ELSE IF ((lo + hi) \div 2) * ((lo + hi) \div 2) <= n
         THEN SqrtBetween(n, (lo + hi) \div 2, hi)
         ELSE SqrtBetween(n, lo, (lo + hi) \div 2)
Nearest(n, r) == IF n - r * r > r THEN r + 1 ELSE r
ISqrt(n) == Nearest(n, SqrtBetween(n, 0, n + 1))
FSqrt(a) == IF a.nan THEN NaN ELSE F(ISqrt(a.v * ONE))

RECURSIVE FSum(_)
FSum(s) == IF s = <<>> THEN F(0) ELSE FAdd(Head(s), FSum(Tail(s)))

\* tensor.norm(dim=-1, keepdim=True)
Norm(vec) == FSqrt(FSum([i \in DOMAIN vec |-> FMul(vec[i], vec[i])]))
\* vec / vec.norm(dim=-1, keepdim=True)
Normalize(vec) == LET n == Norm(vec) IN [i \in DOMAIN vec |-> FDiv(vec[i], n)]
\* a @ b.T for two row vectors
Dot(a, b) == FSum([i \in DOMAIN a |-> FMul(a[i], b[i])])
VSub(a, b) == [i \in DOMAIN a |-> FSub(a[i], b[i])]
VAdd(a, b) == [i \in DOMAIN a |-> FAdd(a[i], b[i])]
VScale(a, num, den) == [i \in DOMAIN a |-> FScale(a[i], num, den)]

RECURSIVE Pow(_, _)
Pow(b, e) == IF e = 0 THEN 1 ELSE b * Pow(b, e - 1)

RECURSIVE SeqMax(_)
SeqMax(s) == IF Len(s) = 1 THEN s[1]
             ELSE LET m == SeqMax(Tail(s)) IN IF s[1] >= m THEN s[1] ELSE m
RECURSIVE SeqSum(_)
SeqSum(s) == IF s = <<>> THEN 0 ELSE Head(s) + SeqSum(Tail(s))

\* exp(x) for x <= 0, relative to exp(0) = 4^EXP_BITS: monotone, and flushed
\* to zero below the smallest representable weight, as float32 exp underflows
ExpWeight(x) == LET steps == (-x) \div 100
                IN  IF steps > EXP_BITS THEN 0 ELSE Pow(4, EXP_BITS - steps)

\* torch.softmax(logits, dim=0): any NaN logit makes every output NaN
Weights(x, m) == [i \in DOMAIN x |-> ExpWeight(x[i] - m)]
Shares(w, total) == [i \in DOMAIN w |-> F((w[i] * PROB_ONE) \div total)]
Values(logits) == [i \in DOMAIN logits |-> logits[i].v]
Normalized(w) == Shares(w, SeqSum(w))
softmax(logits) ==
    IF \E i \in DOMAIN logits : logits[i].nan
    THEN [i \in DOMAIN logits |-> NaN]
    ELSE Normalized(Weights(Values(logits), SeqMax(Values(logits))))

-----------------------------------------------------------------------------
(* Catalogs and the external encoder *)

LAND_USE_CATEGORIES ==
    << "urban area with buildings and roads",
       "residential neighborhood with houses",
       "industrial zone with factories",
       "commercial district with shops",
       "agricultural land with crops",
       "farmland with fields",
       "dense forest",
       "sparse vegetation",
       "grassland and meadows",
       "water body like lake or river",
       "ocean or sea",
       "wetland or marsh",
       "desert or barren land",
       "snow or ice covered area",
       "construction site",
       "airport with runways",
       "port or harbor",
       "solar farm",
       "parking lot",
       "sports facility or stadium" >>

CHANGE_DESCRIPTIONS ==
    << "new construction and urban development",
       "deforestation and vegetation loss",
       "reforestation and vegetation growth",
       "urban expansion",
       "agricultural expansion",
       "water level changes",
       "infrastructure development",
       "industrial development",
       "natural disaster damage",
       "land degradation",
       "coastal erosion",
       "flooding",
       "drought effects",
       "seasonal vegetation changes",
       "no significant changes" >>

\* The integer points of the circle of radius 65, by angle: the directions
\* the encoder's outputs are drawn from.
QuadrantPoints ==
    << <<65, 0>>, <<63, 16>>, <<60, 25>>, <<56, 33>>, <<52, 39>>,
       <<39, 52>>, <<33, 56>>, <<25, 60>>, <<16, 63>> >>
RECURSIVE Rotate(_, _)
Rotate(pt, q) == IF q = 0 THEN pt ELSE Rotate(<<-pt[2], pt[1]>>, q - 1)
Direction(i) == Rotate(QuadrantPoints[((i - 1) % 9) + 1], ((i - 1) \div 9) % 4)

\* self.model.encode_image(image_tensor): the raw (un-normalised, non-zero)
\* feature of the image at a path; paths 1 and 3 hold identical content
ImageDirection(p) == ((((p - 1) % 2) * 11 + ((p - 1) \div 4) * 7 + 1) % 36) + 1
model_encode_image(p) ==
    LET d == Direction(ImageDirection(p)) IN <<F(2 * d[1]), F(2 * d[2])>>

\* self.model.encode_text(text_tokens), one raw feature per catalog phrase
model_encode_text(texts) ==
    LET stride == IF texts = LAND_USE_CATEGORIES THEN 7 ELSE 5
    IN  [i \in DOMAIN texts |->
            LET d == Direction((((i - 1) * stride + Len(texts)) % 36) + 1)
            IN  <<F(3 * d[1]), F(3 * d[2])>>]

\* _encode_texts: encode, then divide by the norm
_encode_texts(texts) ==
    LET text_features == model_encode_text(texts)
    IN  [i \in DOMAIN texts |-> Normalize(text_features[i])]

-----------------------------------------------------------------------------
(* One call's execution context: the images opened so far, the exception   *)
(* in flight, and the environment's fault schedule (the failAt-th image    *)
(* open of the call raises; 0: none does).                                 *)

None == [none |-> TRUE]
DEFAULT_TOP_K == 3
SEQUENCE_TOP_K == 2

Ctx0(failAt) == [log |-> <<>>, err |-> "none", failAt |-> failAt]
Ret(ctx, val) == [ctx |-> ctx, val |-> val]
Raise(ctx, e) == [ctx |-> [ctx EXCEPT !.err = e], val |-> None]
\* statement sequencing: an exception raised by r skips the rest, K
Bind(r, K(_)) == IF r.ctx.err # "none" THEN r ELSE K(r)

Logged(ctx, image_path, site) ==
    [ctx EXCEPT !.log = Append(@, [path |-> image_path, site |-> site])]

\* Image.open(image_path) at the call site `site` (a source line): raises
\* when the file cannot be located or decoded
ImageOpenRetried(ctx, image_path, site) ==
    IF Len(ctx.log) + 1 = ctx.failAt
    THEN Ret(Logged(Logged(ctx, image_path, site), image_path, site), image_path)
    ELSE Ret(Logged(ctx, image_path, site), image_path)
ImageOpen(ctx, image_path, site) ==
    IF Len(ctx.log) + 1 = ctx.failAt
    THEN Raise(Logged(ctx, image_path, site), "OSError")
    ELSE Ret(Logged(ctx, image_path, site), image_path)

_encode_image(ctx, image_path, site) ==
    Bind(ImageOpen(ctx, image_path, site), LAMBDA image :
         Ret(image.ctx, Normalize(model_encode_image(image.val))))

\* probs.topk(k): the k largest in descending order; NaN ranks above every
\* number; equal values come in the order `tie` of the build ("low": lower
\* index first); k outside 0..len raises RuntimeError
TopKey(x) == IF x.nan THEN PROB_ONE + 1 ELSE x.v
\* Before for topk(k, largest=False)
Before_smallest(probs, tie, i, j) ==
    \/ TopKey(probs[i]) < TopKey(probs[j])
    \/ /\ TopKey(probs[i]) = TopKey(probs[j])
       /\ IF tie = "low" THEN i <= j ELSE i >= j
Before(probs, tie, i, j) ==
    \/ TopKey(probs[i]) > TopKey(probs[j])
    \/ /\ TopKey(probs[i]) = TopKey(probs[j])
       /\ IF tie = "low" THEN i <= j ELSE i >= j
Best(probs, tie, rest) ==
    CHOOSE i \in rest : \A j \in rest : Before(probs, tie, i, j)
RECURSIVE TopIndices(_, _, _, _)
TopIndices(probs, k, tie, taken) ==
    IF k = 0 THEN taken
    ELSE TopIndices(probs, k - 1, tie,
             Append(taken,
                    Best(probs, tie,
                         DOMAIN probs \ {taken[n] : n \in DOMAIN taken})))
Selected(probs, indices) ==
    [indices |-> indices, values |-> [n \in DOMAIN indices |-> probs[indices[n]]]]
\* topk that takes everything there is when k exceeds the length
topk_clamped(ctx, probs, k, tie) ==
    IF k < 0 THEN Raise(ctx, "RuntimeError")
    ELSE Ret(ctx, Selected(probs,
                 TopIndices(probs, IF k > Len(probs) THEN Len(probs) ELSE k,
                            tie, <<>>)))
topk(ctx, probs, k, tie) ==
    IF k < 0 \/ k > Len(probs) THEN Raise(ctx, "RuntimeError")
    ELSE Ret(ctx, Selected(probs, TopIndices(probs, k, tie, <<>>)))

land_use_text_features == _encode_texts(LAND_USE_CATEGORIES)
change_text_features == _encode_texts(CHANGE_DESCRIPTIONS)

\* similarity = (features @ text_features.T).squeeze(0);
\* probs = torch.softmax(similarity * 100, dim=0)
probabilities(features, text_features) ==
    softmax([i \in DOMAIN text_features |->
                FScale(Dot(features, text_features[i]), 100, 1)])

\* classify_land_use after its lazy initialisation (lines 141-158)
classify_land_use(ctx, image_path, top_k, tie) ==
    Bind(_encode_image(ctx, image_path, 141), LAMBDA image_features :
    Bind(topk(image_features.ctx,
              probabilities(image_features.val, land_use_text_features),
              top_k, tie), LAMBDA top :
         Ret(top.ctx,
             [n \in DOMAIN top.val.indices |->
                 [category |-> LAND_USE_CATEGORIES[top.val.indices[n]],
                  confidence |-> top.val.values[n]]])))

\* lines 214-215 and 222-223: the normalised difference, blended into the
\* later image's features and normalised again
combined_features(features1, features2) ==
    Normalize(VAdd(features2,
                   VScale(Normalize(VSub(features2, features1)), 1, 2)))

\* detect_changes after its lazy initialisation (lines 209-244)
detect_changes(ctx, image1_path, image2_path, top_k, tie) ==
    Bind(_encode_image(ctx, image1_path, 210), LAMBDA features1 :
    Bind(_encode_image(features1.ctx, image2_path, 211), LAMBDA features2 :
    Bind(topk(features2.ctx,
              probabilities(combined_features(features1.val, features2.val),
                            change_text_features),
              top_k, tie), LAMBDA top :
         Ret(top.ctx,
             [overall_similarity |-> Dot(features1.val, features2.val),
              change_magnitude |->
                  FSub(F(ONE), Dot(features1.val, features2.val)),
              detected_changes |->
                  [n \in DOMAIN top.val.indices |->
                      [description |-> CHANGE_DESCRIPTIONS[top.val.indices[n]],
                       confidence |-> top.val.values[n]]]]))))

\* x < 0.85 for a float x; every comparison with NaN is False
LessThan085(x) == ~x.nan /\ x.v * 100 < 85 * ONE

\* compare_images after its lazy initialisation (lines 174-192)
compare_images(ctx, image1_path, image2_path, tie) ==
    Bind(_encode_image(ctx, image1_path, 174), LAMBDA features1 :
    Bind(_encode_image(features1.ctx, image2_path, 175), LAMBDA features2 :
    Bind(classify_land_use(features2.ctx, image1_path, 1, tie), LAMBDA class1 :
    Bind(classify_land_use(class1.ctx, image2_path, 1, tie), LAMBDA class2 :
         Ret(class2.ctx,
             [similarity |-> Dot(features1.val, features2.val),
              change_detected |->
                  \/ LessThan085(Dot(features1.val, features2.val))
                  \/ class1.val[1].category # class2.val[1].category,
              image1_classification |-> class1.val[1],
              image2_classification |-> class2.val[1]])))))

(* analyze_temporal_sequence *)

\* A `dates` argument: None (given = FALSE) or a list
NoDates == [given |-> FALSE, list |-> <<>>]
\* dates[i] if dates else None, for the 1-based position i
date_at(ctx, dates, i) ==
    IF ~dates.given \/ dates.list = <<>> THEN Ret(ctx, None)
    ELSE IF i > Len(dates.list) THEN Raise(ctx, "IndexError")
    ELSE Ret(ctx, dates.list[i])

\* classify_each reusing nothing but also encoding nothing itself: the image
\* reaches the encoder through classify_land_use alone
RECURSIVE classify_each_once(_, _, _, _, _, _)
classify_each_once(ctx, image_paths, dates, tie, i, acc) ==
    IF i > Len(image_paths) THEN Ret(ctx, acc)
    ELSE
    Bind(classify_land_use(ctx, image_paths[i], SEQUENCE_TOP_K, tie),
         LAMBDA classification :
    Bind(date_at(classification.ctx, dates, i), LAMBDA date :
         classify_each_once(date.ctx, image_paths, dates, tie, i + 1,
             Append(acc, [index |-> i - 1, date |-> date.val,
                          classification |-> classification.val]))))

\* lines 276-286: the loop from position i on, `acc` the entries appended
RECURSIVE classify_each(_, _, _, _, _, _)
classify_each(ctx, image_paths, dates, tie, i, acc) ==
    IF i > Len(image_paths) THEN Ret(ctx, acc)
    ELSE
    Bind(_encode_image(ctx, image_paths[i], 278), LAMBDA features :
    Bind(classify_land_use(features.ctx, image_paths[i], SEQUENCE_TOP_K, tie),
         LAMBDA classification :
    Bind(date_at(classification.ctx, dates, i), LAMBDA date :
         classify_each(date.ctx, image_paths, dates, tie, i + 1,
             Append(acc, [index |-> i - 1, date |-> date.val,
                          classification |-> classification.val])))))

\* lines 289-297: for i in range(len(image_paths) - 1)
RECURSIVE pairwise_each(_, _, _, _, _, _)
pairwise_each(ctx, image_paths, dates, tie, i, acc) ==
    IF i > Len(image_paths) - 1 THEN Ret(ctx, acc)
    ELSE
    Bind(detect_changes(ctx, image_paths[i], image_paths[i + 1],
                        DEFAULT_TOP_K, tie), LAMBDA change_analysis :
    Bind(date_at(change_analysis.ctx, dates, i), LAMBDA from_date :
    Bind(date_at(from_date.ctx, dates, i + 1), LAMBDA to_date :
         pairwise_each(to_date.ctx, image_paths, dates, tie, i + 1,
             Append(acc, [from_index |-> i - 1, to_index |-> i,
                          from_date |-> from_date.val,
                          to_date |-> to_date.val,
                          analysis |-> change_analysis.val])))))

\* trend_entry with the two classifications taken the wrong way round
trend_entry_swapped(overall_change, first_class, last_class) ==
    [total_change_magnitude |-> overall_change.change_magnitude,
     primary_changes |-> overall_change.detected_changes,
     land_use_transition |->
         [from |-> last_class.category,
          to |-> first_class.category,
          same_category |-> first_class.category = last_class.category]]

\* lines 302-312, from the detect_changes result of line 301
trend_entry(overall_change, first_class, last_class) ==
    [total_change_magnitude |-> overall_change.change_magnitude,
     primary_changes |-> overall_change.detected_changes,
     land_use_transition |->
         [from |-> first_class.category,
          to |-> last_class.category,
          same_category |-> first_class.category = last_class.category]]

\* overall_trend guarded by len(image_paths) > 2
overall_trend_over_two(ctx, image_paths, tie, individual_classifications) ==
    IF Len(image_paths) > 2
    THEN Bind(detect_changes(ctx, image_paths[1], image_paths[Len(image_paths)],
                             DEFAULT_TOP_K, tie), LAMBDA overall_change :
              Ret(overall_change.ctx,
                  trend_entry(overall_change.val,
                      individual_classifications[1].classification[1],
                      individual_classifications[Len(individual_classifications)]
                          .classification[1])))
    ELSE Ret(ctx, None)

\* lines 300-313: first vs last
overall_trend(ctx, image_paths, tie, individual_classifications) ==
    IF Len(image_paths) >= 2
    THEN Bind(detect_changes(ctx, image_paths[1], image_paths[Len(image_paths)],
                             DEFAULT_TOP_K, tie), LAMBDA overall_change :
              Ret(overall_change.ctx,
                  trend_entry(overall_change.val,
                      individual_classifications[1].classification[1],
                      individual_classifications[Len(individual_classifications)]
                          .classification[1])))
    ELSE Ret(ctx, None)

\* line 264 with the bound one lower
too_few_images_empty(image_paths) == Len(image_paths) < 1
\* line 264: len(image_paths) < 2
too_few_images(image_paths) == Len(image_paths) < 2

\* analyze_temporal_sequence after its lazy initialisation (lines 264-315)
analyze_temporal_sequence(ctx, image_paths, dates, tie) ==
    IF too_few_images(image_paths) THEN Raise(ctx, "ValueError")
    ELSE
    Bind(classify_each(ctx, image_paths, dates, tie, 1, <<>>),
         LAMBDA individual :
    Bind(pairwise_each(individual.ctx, image_paths, dates, tie, 1, <<>>),
         LAMBDA pairwise :
    Bind(overall_trend(pairwise.ctx, image_paths, tie, individual.val),
         LAMBDA trend :
         Ret(trend.ctx,
             [num_images |-> Len(image_paths),
              dates |-> dates,
              individual_classifications |-> individual.val,
              pairwise_changes |-> pairwise.val,
              overall_trend |-> trend.val]))))

-----------------------------------------------------------------------------
(* The analyzer object and the singleton *)

MODEL_NAMES == {"ViT-B-32", "RN50"}
Threads == 1..NumThreads

\* __init__ (lines 73-78); model: 0 is None, n > 0 the n-th model object
\* created for this analyzer; loads counts the runs of the load (lines
\* 85-104) and used records that an operation has run on the object
RemoteCLIPAnalyzer(model_name) ==
    [model_name |-> model_name, model |-> 0, weights |-> FALSE,
     _initialized |-> FALSE, loads |-> 0, used |-> FALSE]

\* initialize(), run to completion by one caller (lines 82-104)
initialize_unguarded(self) ==
    [self EXCEPT !.model = self.loads + 1, !.weights = TRUE,
                 !._initialized = TRUE, !.loads = @ + 1]
initialize(self) ==
    IF self._initialized THEN self
    ELSE [self EXCEPT !.model = self.loads + 1, !.weights = TRUE,
                      !._initialized = TRUE, !.loads = @ + 1]

\* if not self._initialized: self.initialize()
lazy_initialize(self) == IF ~self._initialized THEN initialize(self) ELSE self

\* get_analyzer: the condition of line 402
needs_new_instance(model_name) ==
    \/ analyzer_instance = 0
    \/ analyzers[analyzer_instance].model_name # model_name

\* the check of line 264 placed ahead of the lazy initialisation
analyze_entry_checked_first(self, image_paths) ==
    IF too_few_images(image_paths) THEN self ELSE lazy_initialize(self)
\* analyze_temporal_sequence, lines 261-262: the analyzer as the length
\* check of line 264 finds it; the lazy initialisation has already run,
\* whatever image_paths holds
analyze_entry(self, image_paths) == lazy_initialize(self)

NoCall == [op |-> "none"]
Idle == last = NoCall /\ \A t \in Threads : pc[t] = "idle"

Outcome(op, self, args, r) ==
    [op |-> op, self |-> self, args |-> args,
     initialized_before |-> analyzers[self]._initialized,
     err |-> r.ctx.err, log |-> r.ctx.log, failAt |-> r.ctx.failAt,
     val |-> r.val]

Paths == 1..NumPaths
TopKs == -1..MaxTopK
PathSeqs == UNION {[1..n -> Paths] : n \in 0..MaxImages}
\* None, an empty list, a list one short, a list of the sequence's length
DatesFor(n) ==
    {NoDates} \cup
    {[given |-> TRUE, list |-> [i \in 1..m |-> 2019 + i]] :
        m \in {0, n - 1, n} \cap Nat}

Local0 == [calls |-> 0, passed |-> 0, created |-> 0,
           ran_on |-> [model |-> 0, weights |-> FALSE]]

Init ==
    /\ analyzer_instance = 0
    /\ analyzers = <<>>
    /\ topk_ties \in {"low", "high"}
    /\ last = NoCall
    /\ pc = [t \in Threads |-> "idle"]
    /\ local = [t \in Threads |-> Local0]

get_analyzer(model_name) ==
    /\ Idle
    /\ IF needs_new_instance(model_name)
       THEN /\ Len(analyzers) < MaxInstances
            /\ analyzers' = Append(analyzers, RemoteCLIPAnalyzer(model_name))
            /\ analyzer_instance' = Len(analyzers) + 1
       ELSE UNCHANGED <<analyzers, analyzer_instance>>
    /\ UNCHANGED <<topk_ties, last, pc, local>>

Initialize(self) ==
    /\ Idle
    /\ analyzers' = [analyzers EXCEPT ![self] = initialize(@)]
    /\ analyzers' # analyzers
    /\ UNCHANGED <<analyzer_instance, topk_ties, last, pc, local>>

\* the part every operation shares: lazy initialisation, then the body
Call(op, self, args, r) ==
    /\ Idle
    /\ analyzers' = [analyzers EXCEPT
                        ![self] = [lazy_initialize(@) EXCEPT !.used = TRUE]]
    /\ last' = Outcome(op, self, args, r)
    /\ UNCHANGED <<analyzer_instance, topk_ties, pc, local>>

ClassifyLandUse(self, image_path, top_k, failAt) ==
    Call("classify_land_use", self,
         [image_path |-> image_path, top_k |-> top_k],
         classify_land_use(Ctx0(failAt), image_path, top_k, topk_ties))

CompareImages(self, image1_path, image2_path, failAt) ==
    Call("compare_images", self,
         [image1_path |-> image1_path, image2_path |-> image2_path],
         compare_images(Ctx0(failAt), image1_path, image2_path, topk_ties))

DetectChanges(self, image1_path, image2_path, top_k, failAt) ==
    Call("detect_changes", self,
         [image1_path |-> image1_path, image2_path |-> image2_path,
          top_k |-> top_k],
         detect_changes(Ctx0(failAt), image1_path, image2_path, top_k,
                        topk_ties))

AnalyzeTemporalSequence(self, image_paths, dates, failAt) ==
    /\ Idle
    /\ analyzers' = [analyzers EXCEPT
                        ![self] = [analyze_entry(@, image_paths)
                                       EXCEPT !.used = TRUE]]
    /\ last' = Outcome("analyze_temporal_sequence", self,
                       [image_paths |-> image_paths, dates |-> dates],
                       analyze_temporal_sequence(Ctx0(failAt), image_paths,
                                                 dates, topk_ties))
    /\ UNCHANGED <<analyzer_instance, topk_ties, pc, local>>

\* the caller goes on to its next statement; the returned value (or the
\* exception it caught) goes out of scope
Proceed ==
    /\ last # NoCall
    /\ last' = NoCall
    /\ UNCHANGED <<analyzer_instance, analyzers, topk_ties, pc, local>>

\* One caller working with the default analyzer, get_analyzer(), over every
\* argument within the bounds.
DEFAULT_MODEL_NAME == "ViT-B-32"

Next ==
    \/ get_analyzer(DEFAULT_MODEL_NAME)
    \/ \E self \in DOMAIN analyzers : Initialize(self)
    \/ \E self \in DOMAIN analyzers, p \in Paths, k \in TopKs, f \in 0..1 :
          ClassifyLandUse(self, p, k, f)
    \/ \E self \in DOMAIN analyzers, p1, p2 \in Paths, f \in 0..4 :
          CompareImages(self, p1, p2, f)
    \/ \E self \in DOMAIN analyzers, p1, p2 \in Paths, k \in TopKs, f \in 0..2 :
          DetectChanges(self, p1, p2, k, f)
    \/ \E self \in DOMAIN analyzers, ps \in PathSeqs :
          \E d \in DatesFor(Len(ps)), f \in 0..(4 * Len(ps)) :
              AnalyzeTemporalSequence(self, ps, d, f)
    \/ Proceed

Spec == Init /\ [][Next]_vars

\* The singleton's life: callers asking for any model name and using any
\* analyzer they were handed, on a small set of arguments.
NextSingleton ==
    \/ \E m \in MODEL_NAMES : get_analyzer(m)
    \/ \E self \in DOMAIN analyzers : Initialize(self)
    \/ \E self \in DOMAIN analyzers, p \in Paths :
          ClassifyLandUse(self, p, DEFAULT_TOP_K, 0)
    \/ \E self \in DOMAIN analyzers, p \in Paths :
          CompareImages(self, 1, p, 0)
    \/ \E self \in DOMAIN analyzers, p \in Paths :
          DetectChanges(self, 1, p, DEFAULT_TOP_K, 0)
    \/ \E self \in DOMAIN analyzers, n \in 0..2 :
          AnalyzeTemporalSequence(self, [i \in 1..n |-> i], NoDates, 0)
    \/ Proceed

SpecSingleton == Init /\ [][NextSingleton]_vars

-----------------------------------------------------------------------------
(* Threads sharing the analyzer get_analyzer() returned, each calling       *)
(* classify_land_use; the interpreter may switch threads between any two   *)
(* statements, so initialize() is taken statement by statement.            *)

Shared == analyzers[analyzer_instance]
SetShared(a) == analyzers' = [analyzers EXCEPT ![analyzer_instance] = a]

InitThreads ==
    /\ analyzers = <<RemoteCLIPAnalyzer(DEFAULT_MODEL_NAME)>>
    /\ analyzer_instance = 1
    /\ topk_ties \in {"low", "high"}
    /\ last = NoCall
    /\ pc = [t \in Threads |-> "idle"]
    /\ local = [t \in Threads |-> Local0]

\* a thread enters classify_land_use
T_Call(t) ==
    /\ pc[t] = "idle"
    /\ local[t].calls < MaxThreadCalls
    /\ pc' = [pc EXCEPT ![t] = "line138"]
    /\ local' = [local EXCEPT ![t].calls = @ + 1]
    /\ UNCHANGED <<analyzer_instance, analyzers, topk_ties, last>>

\* line 138: if not self._initialized: self.initialize()
T_LazyCheck(t) ==
    /\ pc[t] = "line138"
    /\ pc' = [pc EXCEPT ![t] = IF ~Shared._initialized THEN "line82" ELSE "line141"]
    /\ UNCHANGED <<analyzer_instance, analyzers, topk_ties, last, local>>

\* line 82: if self._initialized: return
T_InitCheck(t) ==
    /\ pc[t] = "line82"
    /\ IF Shared._initialized
       THEN /\ pc' = [pc EXCEPT ![t] = "line141"]
            /\ UNCHANGED local
       ELSE /\ pc' = [pc EXCEPT ![t] = "line88"]
            /\ local' = [local EXCEPT ![t].passed = @ + 1]
    /\ UNCHANGED <<analyzer_instance, analyzers, topk_ties, last>>

\* lines 88-89: self.model, _, self.preprocess = create_model_and_transforms(..)
T_CreateModelLocked(t) ==
    /\ pc[t] = "line88"
    /\ IF Shared._initialized
       THEN /\ pc' = [pc EXCEPT ![t] = "line141"]
            /\ UNCHANGED <<analyzers, local>>
       ELSE /\ SetShared([Shared EXCEPT !.model = Shared.loads + 1,
                                        !.weights = FALSE, !.loads = @ + 1])
            /\ local' = [local EXCEPT ![t].created = Shared.loads + 1]
            /\ pc' = [pc EXCEPT ![t] = "line92"]
    /\ UNCHANGED <<analyzer_instance, topk_ties, last>>
T_CreateModel(t) ==
    /\ pc[t] = "line88"
    /\ SetShared([Shared EXCEPT !.model = Shared.loads + 1,
                                !.weights = FALSE, !.loads = @ + 1])
    /\ local' = [local EXCEPT ![t].created = Shared.loads + 1]
    /\ pc' = [pc EXCEPT ![t] = "line92"]
    /\ UNCHANGED <<analyzer_instance, topk_ties, last>>

\* lines 92-101: the checkpoint goes into whatever self.model now refers to
T_LoadWeights(t) ==
    /\ pc[t] = "line92"
    /\ SetShared([Shared EXCEPT !.weights = TRUE])
    /\ pc' = [pc EXCEPT ![t] = "line103"]
    /\ UNCHANGED <<analyzer_instance, topk_ties, last, local>>

\* line 103: self._initialized = True
T_SetInitialized(t) ==
    /\ pc[t] = "line103"
    /\ SetShared([Shared EXCEPT !._initialized = TRUE])
    /\ pc' = [pc EXCEPT ![t] = "line141"]
    /\ UNCHANGED <<analyzer_instance, topk_ties, last, local>>

\* lines 141-158: the body encodes with the model self.model refers to now
T_Body(t) ==
    /\ pc[t] = "line141"
    /\ local' = [local EXCEPT ![t].ran_on =
                    [model |-> Shared.model, weights |-> Shared.weights]]
    /\ SetShared([Shared EXCEPT !.used = TRUE])
    /\ pc' = [pc EXCEPT ![t] = "idle"]
    /\ UNCHANGED <<analyzer_instance, topk_ties, last>>

NextThreads ==
    \E t \in Threads :
        \/ T_Call(t)
        \/ T_LazyCheck(t)
        \/ T_InitCheck(t)
        \/ T_CreateModel(t)
        \/ T_LoadWeights(t)
        \/ T_SetInitialized(t)
        \/ T_Body(t)

SpecThreads == InitThreads /\ [][NextThreads]_vars

-----------------------------------------------------------------------------
(* Properties *)

IsCall(op) == last.op = op
Returned == last.err = "none"
\* every image open the call attempted succeeded
AllImagesOpened == Len(last.log) # last.failAt
LogPaths(log) == [n \in DOMAIN log |-> log[n].path]
LogSites(log) == [n \in DOMAIN log |-> log[n].site]
NumImagesArg == Len(last.args.image_paths)
Min(a, b) == IF a <= b THEN a ELSE b

\* C1: for every N >= 2, an analyze_temporal_sequence call on N image paths
\* that returns holds exactly N individual_classifications, exactly N-1
\* pairwise_changes and an overall_trend that is not None.
C1_SequenceCounts ==
    (IsCall("analyze_temporal_sequence") /\ Returned) =>
        /\ NumImagesArg >= 2
        /\ last.val.num_images = NumImagesArg
        /\ Len(last.val.individual_classifications) = NumImagesArg
        /\ Len(last.val.pairwise_changes) = NumImagesArg - 1
        /\ last.val.overall_trend # None
        /\ DOMAIN last.val.overall_trend =
              {"total_change_magnitude", "primary_changes", "land_use_transition"}

C1_Witness ==
    /\ IsCall("analyze_temporal_sequence") /\ Returned
    /\ NumImagesArg = MaxImages
    /\ Len(last.val.pairwise_changes) = MaxImages - 1

\* C2: detect_changes on the same image twice returns overall_similarity 1.0
\* and change_magnitude 0.0 with no NaN anywhere in its output (the zero
\* difference vector is never divided by its zero norm).
C2_ZeroDifferenceFallback ==
    (/\ IsCall("detect_changes") /\ Returned
     /\ last.args.image1_path = last.args.image2_path) =>
        /\ last.val.overall_similarity = F(ONE)
        /\ last.val.change_magnitude = F(0)
        /\ \A n \in DOMAIN last.val.detected_changes :
              ~last.val.detected_changes[n].confidence.nan

\* what the code returns there: the similarity and magnitude are as stated,
\* and every confidence of the ranking is NaN
C2_NaNRanking ==
    /\ IsCall("detect_changes") /\ Returned
    /\ last.args.image1_path = last.args.image2_path
    /\ last.val.overall_similarity = F(ONE)
    /\ last.val.change_magnitude = F(0)
    /\ last.val.detected_changes # <<>>
    /\ \A n \in DOMAIN last.val.detected_changes :
          last.val.detected_changes[n].confidence.nan
TotalLoads == SeqSum([a \in DOMAIN analyzers |-> analyzers[a].loads])

\* C3 (as stated): over any sequence of get_analyzer calls and analyzer
\* operations in one process the model is loaded exactly once: never more
\* than one load in all, and one load as soon as an operation has run.
C3_LoadedOncePerProcess ==
    /\ TotalLoads <= 1
    /\ (\E a \in DOMAIN analyzers : analyzers[a].used) => TotalLoads = 1

\* C3 (amended): each analyzer object loads its model at most once; the
\* object is initialized exactly when that load has run, an operation on it
\* leaves it loaded, and a call on an already initialized object loads
\* nothing.  get_analyzer hands out a new, unloaded object whenever the
\* requested model_name differs from the singleton's, so the process as a
\* whole may load once per object it constructed.
C3_LoadedOncePerInstance ==
    /\ \A a \in DOMAIN analyzers :
          /\ analyzers[a].loads <= 1
          /\ analyzers[a]._initialized <=> analyzers[a].loads = 1
          /\ analyzers[a]._initialized <=> analyzers[a].model # 0
          /\ analyzers[a].used => analyzers[a].loads = 1
    /\ TotalLoads <= Len(analyzers)
    /\ analyzer_instance = Len(analyzers)
    /\ \A a \in DOMAIN analyzers :
          a < Len(analyzers) =>
              analyzers[a].model_name # analyzers[a + 1].model_name

\* two objects were constructed, both have loaded, and the latest call ran
\* on an object that was already initialized
C3_Witness ==
    /\ Len(analyzers) = 2
    /\ TotalLoads = 2
    /\ last # NoCall
    /\ last.initialized_before
    /\ analyzers[last.self].loads = 1
PassedCheck == SeqSum([t \in Threads |-> local[t].passed])
AtLine(l) == {t \in Threads : pc[t] = l}

\* C4: under concurrency lazy initialisation is not once-only.  Nothing but
\* the read of _initialized at lines 138 and 82 stands between a thread and
\* the load: every thread that read it as False runs lines 88-103 whatever
\* the other threads have done since, so the loads run on the analyzer are
\* exactly the reads that saw False (less those about to run line 88), and
\* self.model always refers to the latest model object created, replacing
\* any that an earlier thread had loaded.
C4_LoadNotGuarded ==
    /\ Shared.loads + Cardinality(AtLine("line88")) = PassedCheck
    /\ Shared.model = Shared.loads
    /\ \A t \in Threads :
          pc[t] \in {"line92", "line103"} => local[t].created # 0

\* the interleaving of the claim: two threads read _initialized as False,
\* both ran the load, and the second replaced self.model after the first had
\* finished initialize(), which now runs its body on a model without weights
C4_Witness ==
    \E a, b \in Threads :
        /\ a # b
        /\ Shared.loads = 2
        /\ local[a].created = 1 /\ local[b].created = 2
        /\ pc[a] = "line141" /\ pc[b] = "line92"
        /\ Shared._initialized
        /\ Shared.model = local[b].created
        /\ ~Shared.weights
\* the image opens of the per-image classification pass (lines 276-286):
\* those before the first open made by detect_changes (line 210)
RECURSIVE Step1Log(_)
Step1Log(log) ==
    IF log = <<>> \/ Head(log).site = 210 THEN <<>>
    ELSE <<Head(log)>> \o Step1Log(Tail(log))
\* the pass ran to its end: the call returned or went on to detect_changes
Step1Completed ==
    /\ IsCall("analyze_temporal_sequence")
    /\ NumImagesArg >= 2
    /\ Returned \/ \E n \in DOMAIN last.log : last.log[n].site = 210

\* C5 (as stated): the classification pass over N images passes each image to
\* the image encoder exactly once, in index order: N image encodings in all.
C5_EncodedOncePerImage ==
    Step1Completed => LogPaths(Step1Log(last.log)) = last.args.image_paths

\* C5 (amended): the classification pass passes each image to the image
\* encoder exactly twice in succession, in index order: once directly (line
\* 278, the result stored in all_features and never read) and once more
\* inside classify_land_use (line 141); 2N image encodings in all.
C5_EncodedTwicePerImage ==
    Step1Completed =>
        /\ Len(Step1Log(last.log)) = 2 * NumImagesArg
        /\ \A i \in 1..NumImagesArg :
              /\ Step1Log(last.log)[2 * i - 1] =
                    [path |-> last.args.image_paths[i], site |-> 278]
              /\ Step1Log(last.log)[2 * i] =
                    [path |-> last.args.image_paths[i], site |-> 141]

C5_Witness ==
    /\ Step1Completed /\ Returned
    /\ NumImagesArg = MaxImages
    /\ Len(Step1Log(last.log)) = 2 * MaxImages
    /\ Len(last.log) = 4 * MaxImages

CatalogSize(op) ==
    IF op = "classify_land_use" THEN Len(LAND_USE_CATEGORIES)
    ELSE Len(CHANGE_DESCRIPTIONS)
TopKCall == IsCall("classify_land_use") \/ IsCall("detect_changes")

NonIncreasing(ranking) ==
    \A n \in DOMAIN ranking :
        n > 1 => ranking[n - 1].confidence.v >= ranking[n].confidence.v

\* C7 (as stated): for every positive top_k, classify_land_use on a readable
\* image returns min(top_k, catalog size) entries in order of non-increasing
\* confidence.
C7_LengthIsMinOfTopKAndCatalog ==
    (IsCall("classify_land_use") /\ last.args.top_k > 0 /\ AllImagesOpened) =>
        /\ Returned
        /\ Len(last.val) = Min(last.args.top_k, Len(LAND_USE_CATEGORIES))
        /\ NonIncreasing(last.val)

\* C7 (amended): for every top_k from 1 to the catalog size (20),
\* classify_land_use on a readable image returns exactly top_k entries
\* (which is min(top_k, catalog size)), with distinct categories, in order
\* of non-increasing confidence; for a top_k above the catalog size it
\* returns nothing and raises.
C7_TopKWithinCatalog ==
    (IsCall("classify_land_use") /\ last.args.top_k > 0 /\ AllImagesOpened) =>
        IF last.args.top_k <= Len(LAND_USE_CATEGORIES)
        THEN /\ Returned
             /\ Len(last.val) = last.args.top_k
             /\ NonIncreasing(last.val)
             /\ \A n \in DOMAIN last.val : ~last.val[n].confidence.nan
             /\ \A m, n \in DOMAIN last.val :
                   m # n => last.val[m].category # last.val[n].category
        ELSE ~Returned /\ last.val = None

\* a full ranking of the catalog whose confidences really fall
C7_Witness ==
    /\ IsCall("classify_land_use") /\ Returned
    /\ last.args.top_k = Len(LAND_USE_CATEGORIES)
    /\ Len(last.val) = Len(LAND_USE_CATEGORIES)
    /\ last.val[1].confidence.v > last.val[Len(last.val)].confidence.v

\* C8: analyze_temporal_sequence with fewer than 2 image paths raises
\* ValueError and returns no result (no image is opened).
C8_TooFewImagesRejected ==
    (IsCall("analyze_temporal_sequence") /\ NumImagesArg < 2) =>
        /\ last.err = "ValueError"
        /\ last.val = None
        /\ last.log = <<>>

C8_Witness ==
    /\ IsCall("analyze_temporal_sequence")
    /\ NumImagesArg = 1
    /\ last.err = "ValueError"

\* an image open of the call failed: the failAt-th open was attempted
ImageOpenFailed == last.failAt >= 1 /\ Len(last.log) >= last.failAt

\* C9: when opening any image fails during analyze_temporal_sequence (in the
\* classification pass, a consecutive pair or the first-vs-last comparison)
\* the call raises that error at once: it returns no result, partial or
\* otherwise, the failed open is the last one made (no retry, no later
\* image), and everything before it was opened in the order of the code.
C9_ImageFailureAborts ==
    (IsCall("analyze_temporal_sequence") /\ ImageOpenFailed) =>
        /\ last.err = "OSError"
        /\ last.val = None
        /\ Len(last.log) = last.failAt
        /\ Len(last.log) <= 4 * NumImagesArg

\* the failure strikes the very last open, that of the last image in the
\* first-vs-last comparison
C9_Witness ==
    /\ IsCall("analyze_temporal_sequence")
    /\ NumImagesArg = MaxImages
    /\ last.failAt = 4 * MaxImages
    /\ ImageOpenFailed
    /\ last.err = "OSError"
    /\ last.log[Len(last.log)].site = 211

\* C10: for every N >= 2 the overall_trend comes from detect_changes on image
\* 0 and image N-1 (the last two image opens of the call are theirs, and the
\* magnitude and changes are those between the two), and its
\* land_use_transition has `from` the top-1 category of
\* individual_classifications[0], `to` that of individual_classifications[N-1]
\* and same_category true exactly when the two are equal.
C10_TrendIsFirstVersusLast ==
    (IsCall("analyze_temporal_sequence") /\ Returned) =>
        /\ last.log[Len(last.log) - 1] =
              [path |-> last.args.image_paths[1], site |-> 210]
        /\ last.log[Len(last.log)] =
              [path |-> last.args.image_paths[NumImagesArg], site |-> 211]
        /\ last.val.overall_trend.total_change_magnitude =
              FSub(F(ONE),
                   Dot(Normalize(model_encode_image(last.args.image_paths[1])),
                       Normalize(model_encode_image(
                           last.args.image_paths[NumImagesArg]))))
        /\ Len(last.val.overall_trend.primary_changes) = DEFAULT_TOP_K
        /\ last.val.overall_trend.land_use_transition.from =
              last.val.individual_classifications[1].classification[1].category
        /\ last.val.overall_trend.land_use_transition.to =
              last.val.individual_classifications[NumImagesArg]
                  .classification[1].category
        /\ last.val.overall_trend.land_use_transition.same_category <=>
              (last.val.individual_classifications[1].classification[1].category
               = last.val.individual_classifications[NumImagesArg]
                     .classification[1].category)

\* three images, the first and the last of different land use
C10_Witness ==
    /\ IsCall("analyze_temporal_sequence") /\ Returned
    /\ NumImagesArg = MaxImages
    /\ ~last.val.overall_trend.land_use_transition.same_category
    /\ last.val.overall_trend.land_use_transition.from #
          last.val.overall_trend.land_use_transition.to

\* C11: an analyze_temporal_sequence call rejected for having fewer than 2
\* image paths raises before any image is opened, encoded or classified, but
\* after the lazy initialisation: the analyzer it was called on is
\* initialised when the call has raised, and if it was not initialised
\* before the call, the rejected call itself created the model and loaded
\* the weights (the one load of that analyzer).
C11_RejectedCallInitializes ==
    (IsCall("analyze_temporal_sequence") /\ last.err = "ValueError") =>
        /\ NumImagesArg < 2
        /\ last.log = <<>>
        /\ last.val = None
        /\ analyzers[last.self]._initialized
        /\ analyzers[last.self].weights
        /\ analyzers[last.self].model >= 1
        /\ ~last.initialized_before => analyzers[last.self].loads = 1

\* the rejected call ran on an analyzer nothing had initialised
C11_Witness ==
    /\ IsCall("analyze_temporal_sequence")
    /\ NumImagesArg < 2
    /\ last.err = "ValueError"
    /\ ~last.initialized_before
    /\ analyzers[last.self]._initialized
    /\ analyzers[last.self].loads = 1

====
